---- MODULE Spec2Model ----
(***************************************************************************)
(* Ergodic complexity walk-through (notebook "3. Method - Accessible       *)
(* walk-through").  The notebook defines pmf and run_cases and calls       *)
(* ergodicpy's measures on the PMFs of short boolean strings.              *)
(*                                                                         *)
(* Numbers.  A probability is an exact fraction <<num, den>> in lowest     *)
(* terms.  An entropy is a fixed-point integer counting 1/1000 nats; the   *)
(* natural logarithm of an integer is read from a table rounded to that    *)
(* scale.  Quotients and roots of positive quantities are rounded up, as   *)
(* floating point never rounds a positive quotient or root to zero.        *)
(***************************************************************************)
EXTENDS Integers, Sequences, FiniteSets, TLC

\* ---------------------------------------------------------------- bounds
MaxLen == 2
MaxCases == 2

\* ------------------------------------------------------------- alphabet
Symbols == {"0", "1", "2"}
Domain == {"0", "1"}

\* ----------------------------------------------------- exact fractions
RECURSIVE GCD(_, _)
GCD(a, b) == IF b = 0 THEN a ELSE GCD(b, a % b)

Abs(x) == IF x < 0 THEN -x ELSE x

\* n/d in lowest terms, d > 0
Frac(n, d) == LET g == GCD(Abs(n), d) IN <<n \div g, d \div g>>

One == <<1, 1>>
Zero == <<0, 1>>

FAdd(x, y) == Frac(x[1] * y[2] + y[1] * x[2], x[2] * y[2])
FSub(x, y) == Frac(x[1] * y[2] - y[1] * x[2], x[2] * y[2])
FDivInt(x, n) == Frac(x[1], x[2] * n)
FLeq(x, y) == x[1] * y[2] <= y[1] * x[2]

RECURSIVE FSum(_)
FSum(xs) == IF xs = <<>> THEN Zero ELSE FAdd(xs[1], FSum(Tail(xs)))

RECURSIVE ISum(_)
ISum(xs) == IF xs = <<>> THEN 0 ELSE xs[1] + ISum(Tail(xs))

\* ------------------------------------------------------ fixed point
CeilDiv(n, d) == (n + d - 1) \div d
RoundDiv(n, d) == (2 * n + d) \div (2 * d)

RECURSIVE SqrtSearch(_, _, _)
SqrtSearch(n, lo, hi) ==
    IF lo >= hi THEN lo
    ELSE LET mid == (lo + hi) \div 2
         IN IF mid * mid >= n THEN SqrtSearch(n, lo, mid)
            ELSE SqrtSearch(n, mid + 1, hi)

\* least r with r*r >= n
CeilSqrt(n) == SqrtSearch(n, 0, 46340)

\* round(1000 * ln k) for k = 1..64
LnTable ==
   << 0, 693, 1099, 1386, 1609, 1792, 1946, 2079,
      2197, 2303, 2398, 2485, 2565, 2639, 2708, 2773,
      2833, 2890, 2944, 2996, 3045, 3091, 3135, 3178,
      3219, 3258, 3296, 3332, 3367, 3401, 3434, 3466,
      3497, 3526, 3555, 3584, 3611, 3638, 3664, 3689,
      3714, 3738, 3761, 3784, 3807, 3829, 3850, 3871,
      3892, 3912, 3932, 3951, 3970, 3989, 4007, 4025,
      4043, 4060, 4078, 4094, 4111, 4127, 4143, 4159 >>

Ln(k) == LnTable[k]

\* ------------------------------------------------------------ str
count(sequence, sym) == Cardinality({k \in 1..Len(sequence) : sequence[k] = sym})

\* -------------------------------------------------------------- pmf
Raise(e) == [ok |-> FALSE, exc |-> e]
Value(v) == [ok |-> TRUE, val |-> v]

\* a plausible slip: the empty sequence is given total 1 instead of failing
pmf_guarded(sequence) ==
    LET p1 == count(sequence, "1")
        total == IF Len(sequence) = 0 THEN 1 ELSE Len(sequence)
    IN Value(<<Frac(p1, total), FSub(One, Frac(p1, total))>>)

\* a plausible slip: the complement is left out of the second entry
pmf_nocomplement(sequence) ==
    LET p1 == count(sequence, "1")
        total == Len(sequence)
    IN IF total = 0 THEN Raise("ZeroDivisionError")
       ELSE Value(<<Frac(p1, total), Frac(p1, total)>>)

pmf(sequence) ==
    LET p1 == count(sequence, "1")
        total == Len(sequence)
    IN IF total = 0 THEN Raise("ZeroDivisionError")
       ELSE Value(<<Frac(p1, total), FSub(One, Frac(p1, total))>>)

\* --------------------------------------------------- Shannon entropy
\* -p log p with p = a/b, i.e. (a/b)(log b - log a); 0 log 0 = 0
plogp(p) == IF p[1] = 0 THEN 0 ELSE RoundDiv(p[1] * (Ln(p[2]) - Ln(p[1])), p[2])

entropy(P) == ISum([j \in 1..Len(P) |-> plogp(P[j])])

\* ----------------------------------------------------- ergodic PMF
\* a plausible slip: the first ensemble stands in for the mean
ergodic_pmf_first(pmfs) == pmfs[1]

\* mean ensemble probability distribution
ergodic_pmf(pmfs) ==
    [j \in 1..Len(pmfs[1]) |->
        FDivInt(FSum([k \in 1..Len(pmfs) |-> pmfs[k][j]]), Len(pmfs))]

\* -------------------------------------------------------- complexity
\* a plausible slip: the deviations are taken from the mean of the ensemble
\* entropies instead of from the ergodic entropy
complexity_from_mean(ergodic_entropy, entropies) ==
    LET N == Len(entropies)
        mean == RoundDiv(ISum(entropies), N)
        sq == ISum([k \in 1..N |-> (mean - entropies[k]) * (mean - entropies[k])])
    IN CeilSqrt(CeilDiv(1000 * sq, N * ergodic_entropy))

\* sqrt( sum_i (H_e - H_i)^2 / (N * H_e) ), in 1/1000
complexity(ergodic_entropy, entropies) ==
    LET N == Len(entropies)
        sq == ISum([k \in 1..N |->
                (ergodic_entropy - entropies[k]) * (ergodic_entropy - entropies[k])])
    IN CeilSqrt(CeilDiv(1000 * sq, N * ergodic_entropy))

\* ---------------------------------------------------------- measures
Keys == <<"ensemble_entropy", "ergodic_entropy", "divergence", "complexity", "entropies">>

LEGEND ==
    [k \in {Keys[n] : n \in 1..Len(Keys)} |->
        CASE k = "ensemble_entropy" -> "Ensemble entropy"
          [] k = "ergodic_entropy" -> "Ergodic entropy"
          [] k = "divergence" -> "Erogodic divergence"
          [] k = "complexity" -> "Ergodic complexity"
          [] k = "entropies" -> "Entropies of individual ensembles"]

measures(pmfs, with_entropies) ==
    LET N == Len(pmfs)
        H_list == [k \in 1..N |-> entropy(pmfs[k])]
        ensemble_entropy == RoundDiv(ISum(H_list), N)
        ergodic_entropy == entropy(ergodic_pmf(pmfs))
        ks == {Keys[n] : n \in 1..Len(Keys)} \ (IF with_entropies THEN {} ELSE {"entropies"})
    IN IF \E k \in 1..N : Len(pmfs[k]) # Len(pmfs[1])
       THEN Raise("DomainMismatchError")
       ELSE IF ergodic_entropy = 0
       THEN Raise("DegenerateErgodicEntropyError")
       ELSE Value([k \in ks |->
                CASE k = "ensemble_entropy" -> ensemble_entropy
                  [] k = "ergodic_entropy" -> ergodic_entropy
                  [] k = "divergence" -> ergodic_entropy - ensemble_entropy
                  [] k = "complexity" -> complexity(ergodic_entropy, H_list)
                  [] k = "entropies" -> H_list])

\* ------------------------------------------------------- run_cases
\* the value of run_cases(cases): the comprehension fails at the first
\* failing pmf, otherwise the call's outcome is that of measures
run_cases(cs) ==
    IF \E k \in 1..Len(cs) : ~pmf(cs[k]).ok
    THEN Raise("ZeroDivisionError")
    ELSE measures([k \in 1..Len(cs) |-> pmf(cs[k]).val], TRUE)

\* --------------------------------------------------------- inputs
RECURSIVE SeqsUpTo(_, _)
SeqsUpTo(S, n) ==
    IF n = 0 THEN {<<>>}
    ELSE LET shorter == SeqsUpTo(S, n - 1)
         IN shorter \cup {Append(s, x) : s \in {t \in shorter : Len(t) = n - 1}, x \in S}

Str(bits) == [k \in 1..Len(bits) |-> IF bits[k] = 1 THEN "1" ELSE "0"]

ordered_cases ==
    << Str(<<1,1,1,0,0,0,0,0,0,0>>), Str(<<1,1,0,0,0,0,0,0,0,0>>), Str(<<1,1,1,0,0,0,0,0,0,0>>) >>
erg_cases ==
    << Str(<<1,0,0,0,0,0,0,0,0,0>>), Str(<<0,1,1,1,1,1,1,1,1,1>>), Str(<<0,1,1,1,1,1,1,1,1,1>>) >>
disordered_cases ==
    << Str(<<0,1,1,1,1,0,1,0,1,1>>), Str(<<1,1,1,0,1,0,1,1,0,1>>), Str(<<1,1,1,1,1,0,1,1,1,0>>) >>

Sequences == SeqsUpTo(Symbols, MaxLen)

Inputs ==
    (SeqsUpTo(Sequences, MaxCases) \ {<<>>})
        \cup {ordered_cases, erg_cases, disordered_cases}

\* ----------------------------------------------------------- state
VARIABLES
    pc,             \* position in the cell that calls run_cases
    cases,          \* the argument of run_cases
    pmfs,           \* the list the comprehension has built so far
    result,         \* the local `measures`: the dict measures returned
    printed,        \* the lines printed so far
    returned,       \* the value run_cases returned to the cell
    error,          \* the exception raised to the cell
    measures_calls  \* number of calls of ep.measures

vars == <<pc, cases, pmfs, result, printed, returned, error, measures_calls>>

None == <<>>

Init ==
    /\ pc = "idle"
    /\ cases = <<>>
    /\ pmfs = <<>>
    /\ result = None
    /\ printed = <<>>
    /\ returned = None
    /\ error = "none"
    /\ measures_calls = 0

\* a cell calls run_cases with some list of sequences
Call ==
    /\ pc = "idle"
    /\ \E cs \in Inputs : cases' = cs
    /\ pc' = "comprehension"
    /\ UNCHANGED <<pmfs, result, printed, returned, error, measures_calls>>

\* [pmf(c) for c in cases]: the next element
ComprehensionNext ==
    /\ pc = "comprehension"
    /\ Len(pmfs) < Len(cases)
    /\ pmf(cases[Len(pmfs) + 1]).ok
    /\ pmfs' = Append(pmfs, pmf(cases[Len(pmfs) + 1]).val)
    /\ UNCHANGED <<pc, cases, result, printed, returned, error, measures_calls>>

\* [pmf(c) for c in cases]: pmf raises, run_cases is left with the exception
ComprehensionRaise ==
    /\ pc = "comprehension"
    /\ Len(pmfs) < Len(cases)
    /\ ~pmf(cases[Len(pmfs) + 1]).ok
    /\ pc' = "raised"
    /\ error' = pmf(cases[Len(pmfs) + 1]).exc
    /\ UNCHANGED <<cases, pmfs, result, printed, returned, measures_calls>>

\* a plausible slip: with_entropies is not passed
MeasuresReturn_default ==
    /\ pc = "comprehension"
    /\ Len(pmfs) = Len(cases)
    /\ measures(pmfs, FALSE).ok
    /\ result' = measures(pmfs, FALSE).val
    /\ measures_calls' = measures_calls + 1
    /\ pc' = "print"
    /\ UNCHANGED <<cases, pmfs, printed, returned, error>>

\* measures = ep.measures([...], with_entropies=True)
MeasuresReturn ==
    /\ pc = "comprehension"
    /\ Len(pmfs) = Len(cases)
    /\ measures(pmfs, TRUE).ok
    /\ result' = measures(pmfs, TRUE).val
    /\ measures_calls' = measures_calls + 1
    /\ pc' = "print"
    /\ UNCHANGED <<cases, pmfs, printed, returned, error>>

\* a plausible slip: the failure of measures is caught and a zero reported
MeasuresRaise_swallowed ==
    /\ pc = "comprehension"
    /\ Len(pmfs) = Len(cases)
    /\ ~measures(pmfs, TRUE).ok
    /\ result' = [k \in {"complexity"} |-> 0]
    /\ measures_calls' = measures_calls + 1
    /\ pc' = "return"
    /\ UNCHANGED <<cases, pmfs, printed, returned, error>>

\* ep.measures raises, run_cases is left with the exception
MeasuresRaise ==
    /\ pc = "comprehension"
    /\ Len(pmfs) = Len(cases)
    /\ ~measures(pmfs, TRUE).ok
    /\ error' = measures(pmfs, TRUE).exc
    /\ measures_calls' = measures_calls + 1
    /\ pc' = "raised"
    /\ UNCHANGED <<cases, pmfs, result, printed, returned>>

\* the items of the dict, in key order
items(d) == SelectSeq(Keys, LAMBDA k : k \in DOMAIN d)

\* [print(ep.LEGEND[k][0], v) for k,v in measures.items()]
PrintItems ==
    /\ pc = "print"
    /\ printed' = [n \in 1..Len(items(result)) |->
                     <<LEGEND[items(result)[n]], result[items(result)[n]]>>]
    /\ pc' = "return"
    /\ UNCHANGED <<cases, pmfs, result, returned, error, measures_calls>>

\* return measures
Return ==
    /\ pc = "return"
    /\ returned' = result
    /\ pc' = "returned"
    /\ UNCHANGED <<cases, pmfs, result, printed, error, measures_calls>>

Next ==
    \/ Call
    \/ ComprehensionNext
    \/ ComprehensionRaise
    \/ MeasuresReturn
    \/ MeasuresRaise
    \/ PrintItems
    \/ Return

Spec == Init /\ [][Next]_vars

TypeOK ==
    /\ pc \in {"idle", "comprehension", "print", "return", "returned", "raised"}
    /\ Len(pmfs) <= Len(cases)
    /\ measures_calls \in 0..1

\* ------------------------------------------------------- properties
Binary(s) == \A k \in 1..Len(s) : s[k] \in Domain
AllBinaryNonEmpty(cs) == \A k \in 1..Len(cs) : Binary(cs[k]) /\ Len(cs[k]) > 0
EqualLengths(cs) == \A k \in 1..Len(cs) : Len(cs[k]) = Len(cs[1])
HasEmpty(cs) == \E k \in 1..Len(cs) : cs[k] = <<>>
Complete == Len(cases) > 0 /\ Len(pmfs) = Len(cases)

\* observations of all ensembles merged: total count of sym / total length
TotalCount(cs, sym) == ISum([k \in 1..Len(cs) |-> count(cs[k], sym)])
TotalLen(cs) == ISum([k \in 1..Len(cs) |-> Len(cs[k])])
PooledPMF(cs) == <<Frac(TotalCount(cs, "1"), TotalLen(cs)), Frac(TotalCount(cs, "0"), TotalLen(cs))>>

Perms(n) == {q \in [1..n -> 1..n] : \A a, b \in 1..n : q[a] = q[b] => a = b}
Permute(cs, q) == [k \in 1..Len(cs) |-> cs[q[k]]]

Scalars == {"ensemble_entropy", "ergodic_entropy", "divergence", "complexity"}
\* the four scalars of an outcome of run_cases, None when it raised
ScalarsOf(r) == IF r.ok THEN [key \in Scalars |-> r.val[key]] ELSE None

\* C1: every PMF the comprehension has built from a non-empty sequence of
\* "0" and "1" has exactly two entries, count("1")/len and count("0")/len,
\* each in [0,1], summing to 1.
C1_PmfOfBinarySequence ==
    \A k \in 1..Len(pmfs) :
        (Binary(cases[k]) /\ Len(cases[k]) > 0) =>
            /\ Len(pmfs[k]) = 2
            /\ pmfs[k][1] = Frac(count(cases[k], "1"), Len(cases[k]))
            /\ pmfs[k][2] = Frac(count(cases[k], "0"), Len(cases[k]))
            /\ \A j \in 1..2 : FLeq(Zero, pmfs[k][j]) /\ FLeq(pmfs[k][j], One)
            /\ FAdd(pmfs[k][1], pmfs[k][2]) = One

C1_Witness ==
    \E k \in 1..Len(pmfs) :
        /\ Binary(cases[k])
        /\ count(cases[k], "1") > 0
        /\ count(cases[k], "0") > count(cases[k], "1")

\* C2: a list that contains an empty sequence never gets a PMF for that
\* sequence; the call ends with the error pmf raised (ZeroDivisionError),
\* and measures is never called, nothing is printed and nothing returned.
C2_EmptySequenceRaises ==
    HasEmpty(cases) =>
        /\ \A k \in 1..Len(pmfs) : cases[k] # <<>>
        /\ pc \in {"comprehension", "raised"}
        /\ pc = "raised" => error = "ZeroDivisionError"
        /\ measures_calls = 0
        /\ result = None /\ returned = None /\ printed = <<>>

C2_Witness ==
    /\ pc = "raised"
    /\ error = "ZeroDivisionError"
    /\ Len(pmfs) >= 1
    /\ cases[Len(pmfs) + 1] = <<>>

\* C3: for non-empty binary sequences of one common length, the PMF of the
\* merged observations equals the mean of the PMFs the comprehension built,
\* and its entries sum to 1.
C3_PoolingEqualLengths ==
    (Complete /\ AllBinaryNonEmpty(cases) /\ EqualLengths(cases)) =>
        /\ PooledPMF(cases) = ergodic_pmf(pmfs)
        /\ FAdd(PooledPMF(cases)[1], PooledPMF(cases)[2]) = One

C3_Witness ==
    /\ Complete /\ AllBinaryNonEmpty(cases) /\ EqualLengths(cases)
    /\ Len(cases) >= 2
    /\ pmfs[1] # pmfs[2]

\* C4 (as claimed): for every list of non-empty binary sequences, the
\* ergodic PMF behind the returned ergodic_entropy is total count / total
\* number of observations.
C4_CountsWeightedPooling ==
    (pc = "returned" /\ AllBinaryNonEmpty(cases)) =>
        /\ ergodic_pmf(pmfs) = PooledPMF(cases)
        /\ returned["ergodic_entropy"] = entropy(PooledPMF(cases))

\* C5: when run_cases has returned, run_cases of every permutation of the
\* list returns too, with the same ensemble_entropy, ergodic_entropy,
\* divergence and complexity.
C5_OrderInvariance ==
    pc = "returned" =>
        \A q \in Perms(Len(cases)) :
            ScalarsOf(run_cases(Permute(cases, q))) = [key \in Scalars |-> returned[key]]

C5_Witness ==
    /\ pc = "returned"
    /\ Len(cases) >= 2
    /\ returned["entropies"][1] # returned["entropies"][2]

\* C6: a returned complexity is >= 0, and it is 0 exactly when every
\* per-ensemble entropy equals the ergodic entropy.
C6_ComplexityNonNegative ==
    pc = "returned" =>
        /\ returned["complexity"] >= 0
        /\ returned["complexity"] = 0 <=>
              \A k \in 1..Len(returned["entropies"]) :
                  returned["entropies"][k] = returned["ergodic_entropy"]

C6_Witness ==
    /\ pc = "returned"
    /\ Len(cases) >= 2
    /\ returned["complexity"] = 0
    /\ cases[1] # cases[2]

C8_EntropiesInInputOrder ==
    pc = "returned" =>
        /\ "entropies" \in DOMAIN returned
        /\ Len(returned["entropies"]) = Len(cases)
        /\ \A k \in 1..Len(cases) :
              returned["entropies"][k] = entropy(pmf(cases[k]).val)

C8_Witness ==
    /\ pc = "returned"
    /\ Len(cases) = 3
    /\ returned["entropies"][1] = returned["entropies"][2]
    /\ returned["entropies"][2] > returned["entropies"][3]

\* C9 (as claimed): a sequence with a symbol outside {"0","1"} is never
\* turned into a PMF, and a call with such a sequence never returns.
C9_DomainMismatchRejected ==
    /\ \A k \in 1..Len(pmfs) : Binary(cases[k])
    /\ (\E k \in 1..Len(cases) : ~Binary(cases[k])) => pc # "returned"

====
